---- MODULE Spec2Model ----
(***************************************************************************)
(* A model of the two agents of swarm_with_agent:                          *)
(*   visualization_agent.py  text -> metric mapping -> rendered chart      *)
(*   web_search_agent.py     query -> HTTP GET -> parsed items -> text     *)
(*                                                                         *)
(* Text is a sequence of tokens.  A token is one character (":", "8", ".") *)
(* or one literal of a regular expression of the source (a label, a unit). *)
(* TLA+ strings are ASCII, so the Chinese literals are written in pinyin:  *)
(*   YingYeShouRu = U+8425 U+4E1A U+6536 U+5165   (operating revenue)      *)
(*   JingLiRun    = U+51C0 U+5229 U+6DA6          (net profit)             *)
(*   MaoLiLv      = U+6BDB U+5229 U+7387          (gross margin)           *)
(*   JingZiChanShouYiLv                           (return on equity)       *)
(*   ZiChanFuZhaiLv                               (debt ratio)             *)
(*   ZongZiChan, ZongFuZhai                       (total assets, debts)    *)
(*   YiYuan, Yi                                   (unit: 100 million)      *)
(*   FWCOLON      = U+FF1A                        (full-width colon)       *)
(***************************************************************************)
EXTENDS Integers, Sequences, FiniteSets, TLC

VARIABLES
    pc,             \* position of the one call the behaviour follows
    clock,          \* datetime.now(), in seconds
    savefig,        \* what fig.savefig did in the call: "ok" or an exception
    data_summary,   \* argument of _parse_financial_data / generate_chart
    financial_data, \* what _parse_financial_data returned
    parse_outcome,  \* how it ended: "return", "caught" (its except ran), "raise"
    type_arg,       \* the chart_type argument of generate_chart
    chart,          \* what generate_chart returned and did on the way
    metrics_arg,    \* the mapping given to a FinancialChartGenerator method
    render,         \* what that method returned and drew
    query,          \* the query argument of async_search
    session_gets,   \* number of session.get calls made
    response,       \* what session.get gave: an exception, or status and page
    parser_calls,   \* number of calls of _parse_baidu_results_optimized
    parsed_results, \* the parser's list before deduplication
    parse_trace,    \* the selectors and containers the parser went through
    search_results, \* what search_baidu returned
    search_text,    \* what async_search returned
    rcParams,       \* matplotlib's process-wide style parameters
    files,          \* the files under the chart output directory
    log             \* the render calls made in this process, with their outcomes

\* ------------------------------------------------------------------ bounds

\* Longest summary text (in tokens) given to _parse_financial_data.
MaxLen == 5

\* Longest summary text (in tokens) given to generate_chart.
MaxSummaryLen == 4

\* Longest page (in elements) among the pages enumerated exhaustively.
MaxShortPage == 2

\* Longest page (in elements) among the pages of one repeated element.
MaxPage == 21

\* Most render calls a process makes.
MaxCalls == 2

\* Last tick of the clock of a process.
MaxClock == 2

\* Most entries of a mapping given to a FinancialChartGenerator method.
MaxMetrics == 5

\* ------------------------------------------------------- characters, floats

Digits == {"0", "1", "2", "3", "4", "5", "6", "7", "8", "9"}

\* The class [\d\.] of the patterns.
NumChars == Digits \cup {"."}

\* The class \s.
WhiteSpace == {" "}

\* The class [FWCOLON:\s] of the label patterns.
LabelSeps == {"FWCOLON", ":"} \cup WhiteSpace

DigitVal(c) ==
    CASE c = "0" -> 0 [] c = "1" -> 1 [] c = "2" -> 2 [] c = "3" -> 3
      [] c = "4" -> 4 [] c = "5" -> 5 [] c = "6" -> 6 [] c = "7" -> 7
      [] c = "8" -> 8 [] c = "9" -> 9

\* str.lower() / re.IGNORECASE on the literals the source compares.
Lower(t) ==
    CASE t = "Revenue" -> "revenue"
      [] t = "REVENUE" -> "revenue"
      [] t = "Net Profit" -> "net profit"
      [] t = "Gross Margin" -> "gross margin"
      [] t = "ROE" -> "roe"
      [] t = "Roe" -> "roe"
      [] t = "Debt Ratio" -> "debt ratio"
      [] t = "Total Assets" -> "total assets"
      [] t = "Total Liabilities" -> "total liabilities"
      [] t = "Percent" -> "percent"
      [] t = "Million" -> "million"
      [] t = "Billion" -> "billion"
      [] OTHER -> t

\* A Python float that came from a decimal literal: m / 10^e, kept in the
\* normal form where m has no trailing zero unless e = 0.
RECURSIVE Normal(_)
Normal(f) ==
    IF f.e > 0 /\ f.m % 10 = 0 THEN Normal([m |-> f.m \div 10, e |-> f.e - 1])
    ELSE f

IntVal(n) == [m |-> n, e |-> 0]

\* float(s) raises ValueError unless s has a digit and at most one dot.
FloatRaises(s) ==
    \/ Cardinality({i \in 1..Len(s) : s[i] = "."}) > 1
    \/ \A i \in 1..Len(s) : s[i] \notin Digits

RECURSIVE FloatAcc(_, _, _, _)
FloatAcc(s, i, m, e) ==
    IF i > Len(s) THEN Normal([m |-> m, e |-> IF e < 0 THEN 0 ELSE e])
    ELSE IF s[i] = "." THEN FloatAcc(s, i + 1, m, 0)
    ELSE FloatAcc(s, i + 1, 10 * m + DigitVal(s[i]), IF e < 0 THEN e ELSE e + 1)

\* float(s) of a string of [\d\.] characters that does not raise.
Float(s) == FloatAcc(s, 1, 0, -1)

\* A local variable of the source: the value is computed once, where it is
\* assigned, and F is what the code goes on to do with it.
Bind(value, F(_)) == CHOOSE r \in {F(v) : v \in {value}} : TRUE

\* ------------------------------------------------------------ dict helpers

\* A dict is the sequence of its items in insertion order.
Keys(d) == {d[i].k : i \in 1..Len(d)}

DictGet(d, key) == d[CHOOSE i \in 1..Len(d) : d[i].k = key].v

\* d[key] = value: an existing key keeps its place, a new one goes last.
DictSet(d, key, value) ==
    IF key \in Keys(d)
    THEN [i \in 1..Len(d) |-> IF d[i].k = key THEN [k |-> key, v |-> value] ELSE d[i]]
    ELSE Append(d, [k |-> key, v |-> value])

\* ------------------------------------------------- _parse_financial_data

\* The label patterns, in the order the source tries them: the literals of
\* the alternation, and the canonical key.  Each is followed in the source
\* by [FWCOLON:\s]*([\d\.]+).
patterns == <<
    [alts |-> {"YingYeShouRu", "Revenue"},          key |-> "Revenue"],
    [alts |-> {"JingLiRun", "Net Profit"},          key |-> "Net Profit"],
    [alts |-> {"MaoLiLv", "Gross Margin"},          key |-> "Gross Margin"],
    [alts |-> {"ROE", "JingZiChanShouYiLv"},        key |-> "ROE"],
    [alts |-> {"ZiChanFuZhaiLv", "Debt Ratio"},     key |-> "Debt Ratio"],
    [alts |-> {"ZongZiChan", "Total Assets"},       key |-> "Total Assets"],
    [alts |-> {"ZongFuZhai", "Total Liabilities"},  key |-> "Total Liabilities"] >>

\* The unit literals of the loose pattern.
UnitTokens == {"YiYuan", "Yi", "%", "percent", "million", "billion"}

predefined_keys ==
    <<"Revenue", "Net Profit", "Gross Margin", "ROE", "Other Metric 1", "Other Metric 2">>

\* The mock data of the source, returned when nothing was extracted and
\* when an exception was caught.
MockData == <<
    [k |-> "Revenue",           v |-> IntVal(8900)],
    [k |-> "Net Profit",        v |-> IntVal(800)],
    [k |-> "Gross Margin",      v |-> IntVal(45)],
    [k |-> "ROE",               v |-> IntVal(15)],
    [k |-> "Total Assets",      v |-> IntVal(15000)],
    [k |-> "Total Liabilities", v |-> IntVal(7000)] >>

\* A literal matches a token under re.IGNORECASE.
MatchesAny(alts, tok) == \E a \in alts : Lower(a) = Lower(tok)

\* The end of the longest run of characters of class cls that starts at i
\* (i - 1 when text[i] is not in the class): a greedy cls*.
RECURSIVE RunEnd(_, _, _)
RunEnd(text, i, cls) ==
    IF i <= Len(text) /\ text[i] \in cls THEN RunEnd(text, i + 1, cls) ELSE i - 1

\* Whether (alts)[FWCOLON:\s]*([\d\.]+) matches at position i.  The two
\* classes are disjoint, so giving separators back never helps: the match
\* is the label, the whole run of separators, the whole run of [\d\.].
LabelMatchAt(alts, text, i) ==
    /\ MatchesAny(alts, text[i])
    /\ LET n == RunEnd(text, i + 1, LabelSeps) + 1
       IN  n <= Len(text) /\ text[n] \in NumChars

\* group(2) of that match.
LabelGroup2(text, i) ==
    LET n == RunEnd(text, i + 1, LabelSeps) + 1
    IN  SubSeq(text, n, RunEnd(text, n, NumChars))

\* re.search(pattern, data_summary, re.IGNORECASE): the leftmost position
\* where the pattern matches, 0 for None.
ReSearchLabel(alts, text) ==
    LET hits == {i \in 1..Len(text) : LabelMatchAt(alts, text, i)}
    IN  IF hits = {} THEN 0 ELSE CHOOSE i \in hits : \A j \in hits : i <= j

\* The loop over the patterns, from pattern p on: a match whose group(2)
\* float() rejects is skipped.
RECURSIVE MatchPatterns(_, _, _)
MatchPatterns(text, p, fd) ==
    IF p > Len(patterns) THEN fd
    ELSE LET at == ReSearchLabel(patterns[p].alts, text)
         IN  IF at # 0 /\ ~FloatRaises(LabelGroup2(text, at))
             THEN MatchPatterns(text, p + 1,
                      DictSet(fd, patterns[p].key, Float(LabelGroup2(text, at))))
             ELSE MatchPatterns(text, p + 1, fd)

\* The loose pattern without its unit: any run of [\d\.] matches.
UnitMatchAtNoUnit(text, i) == text[i] \in NumChars

\* Whether ([\d\.]+)\s*(unit) matches at position i: the run of [\d\.]
\* cannot be shortened (what follows a shorter run is a [\d\.] character,
\* neither white space nor a unit).
UnitMatchAt(text, i) ==
    /\ text[i] \in NumChars
    /\ LET u == RunEnd(text, RunEnd(text, i, NumChars) + 1, WhiteSpace) + 1
       IN  u <= Len(text) /\ MatchesAny(UnitTokens, text[u])

\* re.findall of the loose pattern from position i on: the captured
\* groups of the non-overlapping matches, left to right.
RECURSIVE FindAllUnits(_, _)
FindAllUnits(text, i) ==
    IF i > Len(text) THEN <<>>
    ELSE IF UnitMatchAt(text, i)
    THEN LET e == RunEnd(text, i, NumChars)
             u == RunEnd(text, e + 1, WhiteSpace) + 1
         IN  <<SubSeq(text, i, e)>> \o FindAllUnits(text, u + 1)
    ELSE FindAllUnits(text, i + 1)

\* The loop over number_matches, from match i on (1-based).
RECURSIVE LooseAssign(_, _, _)
LooseAssign(number_matches, i, fd) ==
    IF i > Len(number_matches) \/ i > Len(predefined_keys) THEN fd
    ELSE IF FloatRaises(number_matches[i])
    THEN LooseAssign(number_matches, i + 1, fd)
    ELSE LooseAssign(number_matches, i + 1,
             DictSet(fd, predefined_keys[i], Float(number_matches[i])))

\* The body of the try block on a str.
ParseText(text) ==
    LET strict == MatchPatterns(text, 1, <<>>)
        loose  == IF strict = <<>>
                  THEN LooseAssign(FindAllUnits(text, 1), 1, <<>>)
                  ELSE strict
    IN  IF loose = <<>> THEN MockData ELSE loose

\* The try block of _parse_financial_data: re.search raises TypeError on an
\* argument that is no str.
ParseTry(summary) ==
    IF summary.type # "str"
    THEN [exc |-> "TypeError", data |-> <<>>]
    ELSE [exc |-> "none", data |-> ParseText(summary.chars)]

\* _parse_financial_data without its `except Exception`: what the try block
\* raises leaves the function.
ParseFinancialDataNoExcept(summary) ==
    LET t == ParseTry(summary)
    IN  IF t.exc # "none"
        THEN [outcome |-> "raise", exc |-> t.exc, data |-> <<>>]
        ELSE [outcome |-> "return", exc |-> "none", data |-> t.data]

\* _parse_financial_data(data_summary): `except Exception` returns the mock
\* data.  outcome is "return" (the try block returned), "caught" (the
\* except branch returned) or "raise" (an exception left the function).
ParseFinancialData(summary) ==
    LET t == ParseTry(summary)
    IN  IF t.exc # "none"
        THEN [outcome |-> "caught", exc |-> t.exc, data |-> MockData]
        ELSE [outcome |-> "return", exc |-> "none", data |-> t.data]

\* ------------------------------------------------ strings as characters

\* The characters of the metric names and of the keywords the chart
\* routines look for in them.
Chars(s) ==
    CASE s = "Revenue" -> <<"R", "e", "v", "e", "n", "u", "e">>
      [] s = "Net Profit" -> <<"N", "e", "t", " ", "P", "r", "o", "f", "i", "t">>
      [] s = "Gross Margin" -> <<"G", "r", "o", "s", "s", " ", "M", "a", "r", "g", "i", "n">>
      [] s = "ROE" -> <<"R", "O", "E">>
      [] s = "Debt Ratio" -> <<"D", "e", "b", "t", " ", "R", "a", "t", "i", "o">>
      [] s = "Total Assets" -> <<"T", "o", "t", "a", "l", " ", "A", "s", "s", "e", "t", "s">>
      [] s = "Total Liabilities" -> <<"T", "o", "t", "a", "l", " ", "L", "i", "a", "b", "i", "l", "i", "t", "i", "e", "s">>
      [] s = "Other Metric 1" -> <<"O", "t", "h", "e", "r", " ", "M", "e", "t", "r", "i", "c", " ", "1">>
      [] s = "Other Metric 2" -> <<"O", "t", "h", "e", "r", " ", "M", "e", "t", "r", "i", "c", " ", "2">>
      [] s = "Sales Growth" -> <<"S", "a", "l", "e", "s", " ", "G", "r", "o", "w", "t", "h">>
      [] s = "Equity" -> <<"E", "q", "u", "i", "t", "y">>
      [] s = "Cash" -> <<"C", "a", "s", "h">>
      [] s = "margin" -> <<"m", "a", "r", "g", "i", "n">>
      [] s = "ratio" -> <<"r", "a", "t", "i", "o">>
      [] s = "roe" -> <<"r", "o", "e">>
      [] s = "rate" -> <<"r", "a", "t", "e">>
      [] s = "revenue" -> <<"r", "e", "v", "e", "n", "u", "e">>
      [] s = "profit" -> <<"p", "r", "o", "f", "i", "t">>
      [] s = "growth" -> <<"g", "r", "o", "w", "t", "h">>
      [] s = "increase" -> <<"i", "n", "c", "r", "e", "a", "s", "e">>
      [] s = "debt" -> <<"d", "e", "b", "t">>
      [] s = "asset" -> <<"a", "s", "s", "e", "t">>
      [] s = "equity" -> <<"e", "q", "u", "i", "t", "y">>
      [] s = "roa" -> <<"r", "o", "a">>
      [] s = "efficiency" -> <<"e", "f", "f", "i", "c", "i", "e", "n", "c", "y">>

\* str.lower() on one character (the capitals the metric names use).
LowerChar(c) ==
    CASE c = "A" -> "a" [] c = "C" -> "c" [] c = "D" -> "d" [] c = "E" -> "e"
      [] c = "G" -> "g" [] c = "L" -> "l" [] c = "M" -> "m" [] c = "N" -> "n"
      [] c = "O" -> "o" [] c = "P" -> "p" [] c = "R" -> "r" [] c = "S" -> "s"
      [] c = "T" -> "t" [] OTHER -> c

\* key.lower()
KeyLower(key) == [i \in 1..Len(Chars(key)) |-> LowerChar(Chars(key)[i])]

\* word in key.lower()
WordInKey(word, key) ==
    LET w == Chars(word)
        t == KeyLower(key)
    IN  \E i \in 0..(Len(t) - Len(w)) : SubSeq(t, i + 1, i + Len(w)) = w

\* any(word in key.lower() for word in words)
AnyWordInKey(words, key) == \E word \in words : WordInKey(word, key)

\* {k: v for k, v in d.items() if any(word in k.lower() for word in words)}
RECURSIVE FilterByWords(_, _)
FilterByWords(d, words) ==
    IF d = <<>> THEN <<>>
    ELSE IF AnyWordInKey(words, Head(d).k)
    THEN <<Head(d)>> \o FilterByWords(Tail(d), words)
    ELSE FilterByWords(Tail(d), words)

\* ------------------------------------------------------ Python list slices

Min(a, b) == IF a < b THEN a ELSE b

Max(a, b) == IF a > b THEN a ELSE b

\* items[:stop] for stop >= 0
SliceTo(items, stop) == SubSeq(items, 1, Min(stop, Len(items)))

\* items[start:]: a negative start counts from the end and is clamped to
\* the front; -0 is 0, the whole list.
SliceFrom(items, start) ==
    LET n == Len(items)
        s == IF start < 0 THEN Max(n + start, 0) ELSE Min(start, n)
    IN  SubSeq(items, s + 1, n)

\* ------------------------------------------------ FinancialChartGenerator

output_dir == "./charts"

\* What each render method returns when its try block raised.
ErrorRecord(message) == [status |-> "error", message |-> message]

\* _save_chart: os.path.join(self.output_dir, filename)
SaveChartPath(filename) == <<output_dir>> \o filename

\* The clock counts ticks; this many of them make a second.
TicksPerSecond == 2

\* A stamp that keeps the ticks: strftime with the fraction of the second.
StampWithFraction(now) == now

\* datetime.now().strftime('%Y%m%d_%H%M%S'): the clock, cut to the second.
Stamp(now) == now \div TicksPerSecond

\* self.chart_styles[style]['style']
chart_styles(style) ==
    CASE style = "corporate" -> "seaborn-v0_8-whitegrid"
      [] style = "modern" -> "seaborn-v0_8-darkgrid"
      [] style = "classic" -> "classic"

\* plt.style.use(sheet) on the process-wide parameters rc.  The parameters
\* are in two groups: sheet_keys, the ones the seaborn sheets set (axes and
\* grid colours, fonts of the ticks), and other_keys, the rest.  style.use
\* updates the parameters a sheet names and leaves the others as they are;
\* the classic sheet names them all.
StyleUse(rc, sheet) ==
    IF sheet = "classic"
    THEN [sheet_keys |-> "classic", other_keys |-> "classic"]
    ELSE [rc EXCEPT !.sheet_keys = sheet]

\* The parameters after the first statements of a render method, which are
\* the ones plt.subplots makes the figure with: bar, line and pie call
\* plt.style.use, generate_metrics_dashboard does not.
RcAfter(rc, method, style) ==
    IF method = "generate_metrics_dashboard" THEN rc
    ELSE StyleUse(rc, chart_styles(style))

\* generate_bar_chart(data, title, style).  io is what fig.savefig does:
\* "ok", or the name of the exception it raises.
GenerateBarChart(data, title, style, now, io) ==
    IF io # "ok"
    THEN [ret |-> ErrorRecord(io), drawn |-> data, file |-> <<>>]
    ELSE LET filepath == SaveChartPath(<<"bar_chart", Stamp(now), ".png">>)
         IN  [ret |-> [chart_type |-> "bar", title |-> title, filepath |-> filepath,
                       image_base64 |-> "png", data_points |-> Len(data),
                       status |-> "success"],
              drawn |-> data, file |-> filepath]

\* generate_line_chart(data, title, xlabel, style)
GenerateLineChart(data, title, xlabel, style, now, io) ==
    IF io # "ok"
    THEN [ret |-> ErrorRecord(io), drawn |-> data, file |-> <<>>]
    ELSE LET filepath == SaveChartPath(<<"line_chart", Stamp(now), ".png">>)
         IN  [ret |-> [chart_type |-> "line", title |-> title, filepath |-> filepath,
                       image_base64 |-> "png", data_points |-> Len(data),
                       status |-> "success"],
              drawn |-> data, file |-> filepath]

RECURSIVE Pow10(_)
Pow10(n) == IF n = 0 THEN 1 ELSE 10 * Pow10(n - 1)

RECURSIVE MaxExp(_)
MaxExp(d) == IF d = <<>> THEN 0 ELSE Max(Head(d).v.e, MaxExp(Tail(d)))

\* The float v in units of 10^-E.
Scaled(v, E) == v.m * Pow10(E - v.e)

\* sum(data.values()), in units of 10^-E.
RECURSIVE SumScaled(_, _)
SumScaled(d, E) == IF d = <<>> THEN 0 ELSE Scaled(Head(d).v, E) + SumScaled(Tail(d), E)

ratio_keywords == {"margin", "ratio", "roe", "rate"}

\* The slices handed to ax.pie, each an exact fraction num/den, or the
\* exception the computation raises.
\*   percentage_data = the entries whose key has a ratio keyword;
\*   if there are none: total = sum(data.values()) and every entry
\*   becomes (v / total) * 100, which raises ZeroDivisionError when the
\*   total is 0 and there is an entry to divide.
PieSlices(data) ==
    LET percentage_data == FilterByWords(data, ratio_keywords)
        E == MaxExp(data)
        total == SumScaled(data, E)
    IN  IF percentage_data # <<>>
        THEN [exc |-> "none",
              slices |-> [i \in 1..Len(percentage_data) |->
                             [k |-> percentage_data[i].k,
                              num |-> percentage_data[i].v.m,
                              den |-> Pow10(percentage_data[i].v.e)]]]
        ELSE IF data # <<>> /\ total = 0
        THEN [exc |-> "ZeroDivisionError", slices |-> <<>>]
        ELSE [exc |-> "none",
              slices |-> [i \in 1..Len(data) |->
                             [k |-> data[i].k,
                              num |-> Scaled(data[i].v, E) * 100,
                              den |-> total]]]

\* generate_pie_chart(data, title, style)
GeneratePieChart(data, title, style, now, io) ==
    LET p == PieSlices(data)
    IN  IF p.exc # "none"
        THEN [ret |-> ErrorRecord(p.exc), drawn |-> <<>>, file |-> <<>>]
        ELSE IF io # "ok"
        THEN [ret |-> ErrorRecord(io), drawn |-> p.slices, file |-> <<>>]
        ELSE LET filepath == SaveChartPath(<<"pie_chart", Stamp(now), ".png">>)
             IN  [ret |-> [chart_type |-> "pie", title |-> title, filepath |-> filepath,
                           image_base64 |-> "png", data_points |-> Len(p.slices),
                           status |-> "success"],
                  drawn |-> p.slices, file |-> filepath]

\* The four subsets of generate_metrics_dashboard, after their fallbacks.
ProfitMetrics(metrics) == FilterByWords(metrics, {"revenue", "profit", "margin"})

GrowthMetrics(metrics) ==
    LET growth_metrics == FilterByWords(metrics, {"growth", "increase"})
    IN  IF growth_metrics = <<>> THEN metrics ELSE growth_metrics

StructureMetrics(metrics) ==
    LET structure_metrics == FilterByWords(metrics, {"debt", "asset", "equity"})
    IN  IF structure_metrics = <<>>
        THEN SliceTo(metrics, Min(4, Len(metrics)))
        ELSE structure_metrics

EfficiencyMetrics(metrics) ==
    LET efficiency_metrics == FilterByWords(metrics, {"roe", "roa", "efficiency"})
    IN  IF efficiency_metrics = <<>>
        THEN SliceFrom(metrics, -Min(4, Len(metrics)))
        ELSE efficiency_metrics

\* A quadrant drawn without the `if subset:` guard.
QuadrantNoGuard(subset) == [bars |-> TRUE, data |-> subset]

\* One quadrant: axes[r, c].bar(...) runs only under `if subset:`.
Quadrant(subset) == [bars |-> subset # <<>>, data |-> subset]

\* generate_metrics_dashboard(metrics, company, year)
GenerateMetricsDashboard(metrics, company, year, now, io) ==
    LET axes == [profit     |-> Quadrant(ProfitMetrics(metrics)),
                 growth     |-> Quadrant(GrowthMetrics(metrics)),
                 structure  |-> Quadrant(StructureMetrics(metrics)),
                 efficiency |-> Quadrant(EfficiencyMetrics(metrics))]
    IN  IF io # "ok"
        THEN [ret |-> ErrorRecord(io), drawn |-> axes, file |-> <<>>]
        ELSE LET filepath ==
                     SaveChartPath(<<"dashboard", "_">> \o company \o <<"_">> \o year
                                       \o <<"_", Stamp(now), ".png">>)
             IN  [ret |-> [chart_type |-> "dashboard",
                           title |-> <<company, year, "Financial Dashboard">>,
                           filepath |-> filepath, image_base64 |-> "png",
                           metrics_count |-> Len(metrics), status |-> "success"],
                  drawn |-> axes, file |-> filepath]

\* --------------------------------------------- _generate_specific_chart

\* The class [^\s,] of the company pattern (the comma is the full-width one).
CompanyStop == WhiteSpace \cup {"FWCOMMA"}

\* Where group(2) of (GongSi|Company)[FWCOLON:\s]*([^\s,]+) starts for a
\* match at position i, 0 when there is none.  After the greedy run of
\* separators the next character must be outside CompanyStop; failing that
\* the run is given back one separator at a time, and a colon given back is
\* itself a character the group accepts.
CompanyGroupStart(text, i) ==
    IF ~MatchesAny({"GongSi", "Company"}, text[i]) THEN 0
    ELSE LET n == RunEnd(text, i + 1, LabelSeps) + 1
             back == {j \in (i + 1)..(n - 1) : text[j] \notin CompanyStop}
         IN  IF n <= Len(text) /\ text[n] \notin CompanyStop THEN n
             ELSE IF back # {} THEN CHOOSE j \in back : \A k \in back : k <= j
             ELSE 0

\* The characters from position i to the first one of class stop.
RECURSIVE RunUntil(_, _, _)
RunUntil(text, i, stop) ==
    IF i <= Len(text) /\ text[i] \notin stop THEN RunUntil(text, i + 1, stop) ELSE i - 1

\* company: group(2) of the leftmost match, else "Test Company".
CompanyOf(text) ==
    LET hits == {i \in 1..Len(text) : CompanyGroupStart(text, i) # 0}
    IN  IF hits = {} THEN <<"Test Company">>
        ELSE LET i == CHOOSE h \in hits : \A j \in hits : h <= j
                 g == CompanyGroupStart(text, i)
             IN  SubSeq(text, g, RunUntil(text, g, CompanyStop))

\* year: group(1) of the leftmost match of (\d{4})Nian, else "2023".
YearOf(text) ==
    LET hits == {i \in 1..(Len(text) - 4) :
                    /\ \A j \in i..(i + 3) : text[j] \in Digits
                    /\ text[i + 4] = "Nian"}
    IN  IF hits = {} THEN <<"2", "0", "2", "3">>
        ELSE LET i == CHOOSE h \in hits : \A j \in hits : h <= j
             IN  SubSeq(text, i, i + 3)

\* chart_type.lower(), token by token (the spellings the inputs use).
LowerType(t) ==
    CASE t = "Bar" -> "bar" [] t = "BAR" -> "bar"
      [] t = "Line" -> "line" [] t = "LINE" -> "line"
      [] t = "Pie" -> "pie" [] t = "PIE" -> "pie"
      [] t = "Dashboard" -> "dashboard" [] t = "DASHBOARD" -> "dashboard"
      [] OTHER -> t

\* word in chart_type_lower
InType(word, chart_type) == \E i \in 1..Len(chart_type) : LowerType(chart_type[i]) = word

\* An if / elif chain that tests the families from the last to the first.
SelectKindLastFirst(chart_type) ==
    IF InType("dashboard", chart_type) \/ InType("YiBiao", chart_type) THEN "dashboard"
    ELSE IF InType("pie", chart_type) \/ InType("Bing", chart_type) THEN "pie"
    ELSE IF InType("line", chart_type) \/ InType("ZheXian", chart_type) THEN "line"
    ELSE IF InType("bar", chart_type) \/ InType("Zhu", chart_type) THEN "bar"
    ELSE "default"

\* The branch the if / elif chain takes.
SelectKind(chart_type) ==
    IF InType("bar", chart_type) \/ InType("Zhu", chart_type) THEN "bar"
    ELSE IF InType("line", chart_type) \/ InType("ZheXian", chart_type) THEN "line"
    ELSE IF InType("pie", chart_type) \/ InType("Bing", chart_type) THEN "pie"
    ELSE IF InType("dashboard", chart_type) \/ InType("YiBiao", chart_type) THEN "dashboard"
    ELSE "default"

\* The synthetic quarterly series of the line branch.
QuarterlyData(parsed_data) ==
    IF Len(parsed_data) >= 4
    THEN [i \in 1..4 |-> [k |-> <<"Q", i, parsed_data[i].k>>, v |-> parsed_data[i].v]]
    ELSE [i \in 1..Min(4, Len(parsed_data)) |-> [k |-> <<"Q", i>>, v |-> parsed_data[i].v]]

\* _generate_specific_chart(parsed_data, chart_type, original_summary): the
\* record returned, what was drawn, the file written, and the render
\* methods called, in order.  re.search raises TypeError on a summary that
\* is no str; the function's own except returns the error record.
GenerateSpecificChart(parsed_data, chart_type, original_summary, now, io) ==
    IF original_summary.type # "str"
    THEN [ret |-> ErrorRecord("TypeError"), drawn |-> <<>>, file |-> <<>>, calls |-> <<>>]
    ELSE LET company == CompanyOf(original_summary.chars)
             year == YearOf(original_summary.chars)
             kind == SelectKind(chart_type)
             r == CASE kind = "bar" ->
                          GenerateBarChart(parsed_data,
                              <<company, year, "Key Financial Indicators">>,
                              "corporate", now, io)
                    [] kind = "line" ->
                          GenerateLineChart(QuarterlyData(parsed_data),
                              <<company, year, "Quarterly Performance">>,
                              "Quarter", "modern", now, io)
                    [] kind = "pie" ->
                          GeneratePieChart(parsed_data,
                              <<company, year, "Financial Structure">>,
                              "classic", now, io)
                    [] kind = "dashboard" ->
                          GenerateMetricsDashboard(parsed_data, company, year, now, io)
                    [] OTHER ->
                          GenerateBarChart(parsed_data,
                              <<company, year, "Financial Metrics">>,
                              "corporate", now, io)
             method == CASE kind = "bar" -> "generate_bar_chart"
                         [] kind = "line" -> "generate_line_chart"
                         [] kind = "pie" -> "generate_pie_chart"
                         [] kind = "dashboard" -> "generate_metrics_dashboard"
                         [] OTHER -> "generate_bar_chart"
         IN  [ret |-> r.ret, drawn |-> r.drawn, file |-> r.file, calls |-> <<method>>]

\* ---------------------------------------------------------- generate_chart

InsufficientMessage ==
    [mark |-> "X", head |-> "Cannot extract sufficient financial information",
     detail |-> "", chart_type |-> "", title |-> <<>>, data_points |-> "", filepath |-> <<>>]

\* generate_chart reading the failure text under a key the error records do
\* not have: chart_result.get('error', 'Unknown error').
ChartResponseWrongKey(chart_result) ==
    IF chart_result["status"] = "success"
    THEN [mark |-> "OK", head |-> "Chart generation successful!", detail |-> "",
          chart_type |-> chart_result["chart_type"],
          title |-> chart_result["title"],
          data_points |-> IF "data_points" \in DOMAIN chart_result
                          THEN ToString(chart_result["data_points"])
                          ELSE "N/A",
          filepath |-> chart_result["filepath"]]
    ELSE [mark |-> "X", head |-> "Chart generation failed: ",
          detail |-> IF "error" \in DOMAIN chart_result
                     THEN chart_result["error"] ELSE "Unknown error",
          chart_type |-> "", title |-> <<>>, data_points |-> "", filepath |-> <<>>]

\* The string generate_chart builds from the chart record.  A success
\* record is read with ['chart_type'], ['title'], ['filepath'] (KeyError
\* when absent, caught by the outer except) and .get('data_points', 'N/A').
ChartResponse(chart_result) ==
    IF chart_result["status"] = "success"
    THEN IF {"chart_type", "title", "filepath"} \subseteq DOMAIN chart_result
         THEN [mark |-> "OK", head |-> "Chart generation successful!", detail |-> "",
               chart_type |-> chart_result["chart_type"],
               title |-> chart_result["title"],
               data_points |-> IF "data_points" \in DOMAIN chart_result
                               THEN ToString(chart_result["data_points"])
                               ELSE "N/A",
               filepath |-> chart_result["filepath"]]
         ELSE [mark |-> "X", head |-> "Error during chart generation: ",
               detail |-> "KeyError", chart_type |-> "", title |-> <<>>,
               data_points |-> "", filepath |-> <<>>]
    ELSE [mark |-> "X", head |-> "Chart generation failed: ",
          detail |-> IF "message" \in DOMAIN chart_result
                     THEN chart_result["message"] ELSE "Unknown error",
          chart_type |-> "", title |-> <<>>, data_points |-> "", filepath |-> <<>>]

\* The guard of generate_chart without its length test.
InsufficientOnlyEmpty(parsed_data) == parsed_data = <<>>

\* Whether generate_chart returns before rendering:
\* `if not parsed_data or len(parsed_data) < 2`.
Insufficient(parsed_data) == parsed_data = <<>> \/ Len(parsed_data) < 2

\* generate_chart(data_summary, chart_type): the string returned, and what
\* the call did on the way.
GenerateChart(summary, chart_type, now, io) ==
    LET Failed(exc) ==
            [response |-> [mark |-> "X", head |-> "Error during chart generation: ",
                           detail |-> exc, chart_type |-> "", title |-> <<>>,
                           data_points |-> "", filepath |-> <<>>],
             parsed_data |-> <<>>, specific_calls |-> <<>>, render_calls |-> <<>>,
             chart_result |-> [status |-> "none"], drawn |-> <<>>, file |-> <<>>]
        Rendered(parsed, g) ==
            [response |-> ChartResponse(g.ret),
             parsed_data |-> parsed.data,
             specific_calls |-> <<[parsed_data |-> parsed.data, chart_type |-> chart_type]>>,
             render_calls |-> g.calls,
             chart_result |-> g.ret, drawn |-> g.drawn, file |-> g.file]
        AfterParse(parsed) ==
            IF parsed.outcome = "raise" THEN Failed(parsed.exc)
            ELSE IF Insufficient(parsed.data)
            THEN [response |-> InsufficientMessage,
                  parsed_data |-> parsed.data, specific_calls |-> <<>>,
                  render_calls |-> <<>>, chart_result |-> [status |-> "none"],
                  drawn |-> <<>>, file |-> <<>>]
            ELSE LET AfterRender(g) == Rendered(parsed, g)
                 IN  Bind(GenerateSpecificChart(parsed.data, chart_type, summary, now, io),
                          AfterRender)
    IN  Bind(ParseFinancialData(summary), AfterParse)

\* ======================================================= BaiduSearchAgent
\*
\* A page (the soup) is the sequence of its elements in document order.  An
\* element is what the parsers read of it:
\*   tag        "div", "section", "span"
\*   cls        its class attribute, "" when it has none
\*   srcid      whether it has a srcid attribute
\*   shape      "h3": the title is <h3><a href>title</a></h3>;
\*              "a": the title is a bare <a href>title</a>;
\*              "none": the element holds neither h3 nor a
\*   title      the text of the title element, as in the page
\*   href       the href of the anchor
\*   body       the rest of the element's text
\*   malformed  whether reading the element raises
\* Titles are named "1", "2", ...: each stands for a title of five characters
\* or more; "abc" is a title of three; " 1" is title "1" with white space
\* that _clean_text removes.  Chinese literals in pinyin: GuangGao, TuiGuang
\* (the two advertising words), BaiduSouSuo (the source label), BeiYong
\* (backup), XiTongTiShi (system notice), ZanWuXiangXiZhaiYao (no abstract).

\* _clean_text: runs of white space become one space, the ends are stripped.
CleanText(text) ==
    CASE text = " 1" -> "1"
      [] text = " " -> ""
      [] OTHER -> text

\* len(title)
TitleLen(title) ==
    CASE title = "" -> 0
      [] title = "abc" -> 3
      [] OTHER -> 8

\* word in text.lower(), for the advertising words.
HasWord(word, text) ==
    CASE word = "GuangGao" -> text \in {"GuangGao", "GuangGao 1"}
      [] word = "TuiGuang" -> text \in {"TuiGuang", "TuiGuang 1"}
      [] word = "ad" -> text \in {"download", "ad"}
      [] word = "advertisement" -> FALSE

\* The CSS selectors of _parse_baidu_results_optimized, in order.
selectors == <<"div.result", "div.c-container", "div[class*=result]",
               "div[class*=c-container]", "div.content-left", "div[srcid]">>

\* Whether the element matches the selector.
Selects(selector, el) ==
    /\ el.tag = "div"
    /\ CASE selector = "div.result" -> el.cls = "result"
         [] selector = "div.c-container" -> el.cls = "c-container"
         [] selector = "div[class*=result]" -> el.cls \in {"result", "result-op"}
         [] selector = "div[class*=c-container]" -> el.cls \in {"c-container", "new-c-container"}
         [] selector = "div.content-left" -> el.cls = "content-left"
         [] selector = "div[srcid]" -> el.srcid

\* soup.select(selector)
Select(soup, selector) == SelectSeq(soup, LAMBDA el : Selects(selector, el))

\* _is_ad(container): an indicator in the lower-cased text of the container,
\* its title included.
IsAd(container) ==
    \E word \in {"GuangGao", "TuiGuang", "ad", "advertisement"} :
        HasWord(word, container.body) \/ HasWord(word, container.title)

\* _extract_abstract_optimized(container): the text beside the title when
\* there is enough of it, else the fixed "no abstract" text.
ExtractAbstract(container) ==
    IF container.body \in {"", "ad"} THEN "ZanWuXiangXiZhaiYao" ELSE container.body

\* _parse_single_result(container): [exc, result], result <<>> for None and
\* <<item>> for a dict.
ParseSingleResult(container) ==
    IF container.malformed THEN [exc |-> "AttributeError", result |-> <<>>]
    ELSE IF container.shape = "none" THEN [exc |-> "none", result |-> <<>>]
    ELSE IF IsAd(container) THEN [exc |-> "none", result |-> <<>>]
    ELSE [exc |-> "none",
          result |-> <<[title |-> CleanText(container.title),
                        link |-> IF container.shape = "h3" THEN ""
                                 ELSE IF container.href = "/s" THEN "https://www.baidu.com/s"
                                 ELSE container.href,
                        abstract |-> ExtractAbstract(container),
                        source |-> "BaiduSouSuo"]>>]

\* The loop over result_containers[:10]: a container that raises, one that
\* gives None and one with an empty title are passed over.
RECURSIVE ParseContainers(_)
ParseContainers(containers) ==
    IF containers = <<>> THEN <<>>
    ELSE LET r == ParseSingleResult(Head(containers))
         IN  IF r.exc = "none" /\ r.result # <<>> /\ r.result[1].title # ""
             THEN r.result \o ParseContainers(Tail(containers))
             ELSE ParseContainers(Tail(containers))

\* A loop over the selectors that goes on to the next selector when the
\* containers of one gave no result.
RECURSIVE PrimaryPassUntilResults(_, _)
PrimaryPassUntilResults(soup, i) ==
    LET Next(rest) == [rest EXCEPT !.tried = <<selectors[i]>> \o rest.tried]
        Parse(result_containers) ==
            IF result_containers # <<>>
                   /\ ParseContainers(SliceTo(result_containers, 10)) # <<>>
            THEN [tried |-> <<selectors[i]>>,
                  containers |-> SliceTo(result_containers, 10),
                  results |-> ParseContainers(SliceTo(result_containers, 10))]
            ELSE Bind(PrimaryPassUntilResults(soup, i + 1), Next)
    IN  IF i > Len(selectors)
        THEN [tried |-> <<>>, containers |-> <<>>, results |-> <<>>]
        ELSE Bind(Select(soup, selectors[i]), Parse)

\* The loop over the selectors, from selector i on: the first selector that
\* selects anything is used and the loop breaks.  tried: the selectors given
\* to soup.select; containers: the ones given to _parse_single_result;
\* results: the list when the loop ends.
RECURSIVE PrimaryPass(_, _)
PrimaryPass(soup, i) ==
    LET Next(rest) == [rest EXCEPT !.tried = <<selectors[i]>> \o rest.tried]
        Parse(result_containers) ==
            IF result_containers # <<>>
            THEN [tried |-> <<selectors[i]>>,
                  containers |-> SliceTo(result_containers, 10),
                  results |-> Bind(SliceTo(result_containers, 10), ParseContainers)]
            ELSE Bind(PrimaryPass(soup, i + 1), Next)
    IN  IF i > Len(selectors)
        THEN [tried |-> <<>>, containers |-> <<>>, results |-> <<>>]
        ELSE Bind(Select(soup, selectors[i]), Parse)

PrimaryResults(soup, i) == PrimaryPass(soup, i).results

\* _clean_abstract(abstract): "" for fewer than 10 characters.
CleanAbstract(abstract) == IF abstract \in {"", "ad"} THEN "" ELSE abstract

\* The loop of _parse_backup_results over link_containers[:20].
RECURSIVE BackupContainers(_)
BackupContainers(containers) ==
    IF containers = <<>> THEN <<>>
    ELSE LET c == Head(containers)
             title == CleanText(c.title)
             skip == \/ c.malformed
                     \/ c.shape = "none"
                     \/ c.href = ""
                     \/ title = ""
                     \/ TitleLen(title) < 5
                     \/ HasWord("GuangGao", title)
                     \/ HasWord("TuiGuang", title)
         IN  IF skip THEN BackupContainers(Tail(containers))
             ELSE <<[title |-> title,
                     link |-> c.href,
                     abstract |-> IF CleanAbstract(c.body) # "" THEN CleanAbstract(c.body)
                                  ELSE "ZanWuXiangXiZhaiYao",
                     source |-> "BaiduSouSuo(BeiYong)"]>>
                  \o BackupContainers(Tail(containers))

\* _parse_backup_results(soup): soup.find_all(['div', 'section', 'article'],
\* class_=True)
ParseBackupResults(soup) ==
    LET Loop(link_containers) == Bind(SliceTo(link_containers, 20), BackupContainers)
    IN  Bind(SelectSeq(soup, LAMBDA el : el.tag \in {"div", "section", "article"}
                                          /\ el.cls # ""),
             Loop)

\* What _parse_baidu_results_optimized did before the deduplication: the
\* selectors tried, the containers parsed, the results of the selector
\* loop, whether _parse_backup_results was called (`if not results`), and
\* the list then.
ParseTrace(soup) ==
    LET Backup(p) ==
            IF p.results # <<>>
            THEN [tried |-> p.tried, containers |-> p.containers, primary |-> p.results,
                  backup |-> FALSE, results |-> p.results]
            ELSE [tried |-> p.tried, containers |-> p.containers, primary |-> p.results,
                  backup |-> TRUE, results |-> ParseBackupResults(soup)]
    IN  Bind(PrimaryPass(soup, 1), Backup)

\* The list before deduplication: the primary pass, or the backup pass
\* when the primary pass found nothing.
ParsedResults(soup) == ParseTrace(soup).results

\* The deduplication loop keyed on title and link together.
RECURSIVE UniqueByTitleAndLink(_, _)
UniqueByTitleAndLink(results, seen) ==
    IF results = <<>> THEN <<>>
    ELSE IF <<Head(results).title, Head(results).link>> \in seen
    THEN UniqueByTitleAndLink(Tail(results), seen)
    ELSE <<Head(results)>>
             \o UniqueByTitleAndLink(Tail(results),
                    seen \cup {<<Head(results).title, Head(results).link>>})

\* The deduplication loop: seen_titles, unique_results.
RECURSIVE UniqueResults(_, _)
UniqueResults(results, seen_titles) ==
    IF results = <<>> THEN <<>>
    ELSE IF Head(results).title \in seen_titles
    THEN UniqueResults(Tail(results), seen_titles)
    ELSE <<Head(results)>>
             \o UniqueResults(Tail(results), seen_titles \cup {Head(results).title})

\* _parse_baidu_results_optimized(soup): unique_results[:8]
ParseBaiduResultsOptimized(soup) ==
    LET Unique(results) == SliceTo(UniqueResults(results, {}), 8)
    IN  Bind(ParsedResults(soup), Unique)

\* _get_fallback_results(query)
GetFallbackResults(q) ==
    <<[title |-> "GuanYu query", link |-> "https://www.baidu.com",
       abstract |-> "WuFaHuoQu query", source |-> "XiTongTiShi"]>>

financial_keywords == {"CaiWu", "CaiBao", "ShouRu", "LiRun", "NianBao", "JiDuBaoGao"}

\* format_search_results(results, query)
FormatSearchResults(results, q) ==
    IF results = <<>>
    THEN [kind |-> "no results", query |-> q, items |-> <<>>, tip |-> ""]
    ELSE IF Len(results) = 1 /\ results[1].source = "XiTongTiShi"
    THEN [kind |-> "notice", query |-> q, items |-> <<results[1].abstract>>, tip |-> ""]
    ELSE [kind |-> "block", query |-> q,
          items |-> [i \in 1..Min(5, Len(results)) |->
                        <<results[i].title, results[i].abstract, results[i].source>>],
          tip |-> IF \E i \in 1..Len(q) : q[i] \in financial_keywords
                  THEN "financial" ELSE "generic"]

\* A raise_for_status that raises for a 5xx status only.
RaisesForServerError(status) == 500 <= status /\ status < 600

\* response.raise_for_status(): HTTPError for a 4xx or 5xx status.
RaisesForStatus(status) == 400 <= status /\ status < 600

\* `except requests.HTTPError` in the place of `except Exception`.
CatchesOnlyHTTPError(exc) == exc = "HTTPError"

\* `except Exception as e` of search_baidu: whether it catches exc.
SearchBaiduCatches(exc) == TRUE

\* ------------------------------------------------------------------ inputs

InputTokens == {"YingYeShouRu", "revenue", "ROE", ":", " ", "8", ".", "%"}

RECURSIVE SeqsUpTo(_, _)
SeqsUpTo(S, n) ==
    IF n = 0 THEN {<<>>}
    ELSE LET shorter == SeqsUpTo(S, n - 1)
         IN  shorter \cup {Append(s, x) : s \in {t \in shorter : Len(t) = n - 1}, x \in S}

Summaries(n) ==
    {[type |-> "str", chars |-> s] : s \in SeqsUpTo(InputTokens, n)}
        \cup {[type |-> "NoneType", chars |-> <<>>]}

\* The chart-type strings given to generate_chart.
ChartTypes ==
    {<<"bar">>, <<"Line">>, <<"pie">>, <<"dashboard">>, <<"scatter">>, <<"pie", "bar">>,
     <<"YiBiao", "ZheXian">>, <<"DASHBOARD", "Bing">>}

\* What fig.savefig does: it returns, or the file cannot be written.
IoOutcomes == {"ok", "OSError"}

\* The metric names of the mappings given to the chart methods directly.
RenderKeys ==
    {"Revenue", "ROE", "Total Assets", "Other Metric 1", "Other Metric 2", "Cash",
     "Sales Growth"}

\* The values of such a mapping, by position: all 0, the position, the
\* position and a half, or 0 and 8 in turn.
ValuePatterns == {"zero", "index", "half", "turn"}

PatternValue(pat, i) ==
    CASE pat = "zero" -> IntVal(0)
      [] pat = "index" -> IntVal(i)
      [] pat = "half" -> [m |-> 10 * i + 5, e |-> 1]
      [] pat = "turn" -> IF i % 2 = 1 THEN IntVal(0) ELSE IntVal(8)

IsInjective(s) == \A i, j \in 1..Len(s) : s[i] = s[j] => i = j

\* The dicts of at most n entries over RenderKeys (a dict has no key twice).
MetricMappings(n) ==
    {[i \in 1..Len(ks) |-> [k |-> ks[i], v |-> PatternValue(pat, i)]] :
        ks \in {s \in SeqsUpTo(RenderKeys, n) : IsInjective(s)}, pat \in ValuePatterns}

\* The queries: one with a financial keyword (CaiBao), one without, the
\* empty one.
Queries == {<<"MaoTai", "CaiBao">>, <<"TianQi">>, <<>>}

El(tag, cls, srcid, shape, title, href, body, malformed) ==
    [tag |-> tag, cls |-> cls, srcid |-> srcid, shape |-> shape, title |-> title,
     href |-> href, body |-> body, malformed |-> malformed]

\* A result element as Baidu writes it: the title in an h3 for the classes
\* "result" and "c-container", in a bare anchor otherwise.
Result(cls, title, body) ==
    El("div", cls, FALSE, IF cls \in {"result", "c-container"} THEN "h3" ELSE "a",
       title, "/s", body, FALSE)

\* The elements of the pages enumerated exhaustively.
Elements ==
    {Result(cls, title, "") : cls \in {"result", "result-op", "news"},
                              title \in {"1", " 1", "2", "", "abc", "TuiGuang 1"}}
    \cup {Result(cls, "1", "GuangGao") : cls \in {"result", "news"}}
    \cup {Result("news", "2", "download"), Result("c-container", "1", "")}
    \cup {El("div", cls, FALSE, "a", "2", "/s", "", TRUE) : cls \in {"result", "news"}}
    \cup {El("div", cls, FALSE, "none", "", "", "a long text", FALSE) : cls \in {"result", "news"}}
    \cup {El("div", cls, FALSE, "a", "1", "http://x", "", FALSE) : cls \in {"result-op", "news"}}
    \cup {El("section", "news", FALSE, "a", "2", "http://x", "a long text", FALSE),
          El("div", "", TRUE, "a", "2", "", "", FALSE),
          El("span", "result", FALSE, "a", "1", "/s", "", FALSE)}

\* The titles of a page of one repeated element: all different; the first
\* nine, then again from the first; each one twice.
TitlePatterns == {"distinct", "wrap", "pairs"}

PatternTitle(pat, i) ==
    CASE pat = "distinct" -> ToString(i)
      [] pat = "wrap" -> ToString(((i - 1) % 9) + 1)
      [] pat = "pairs" -> ToString((i + 1) \div 2)

\* The pages a 200 response carries.
Pages ==
    SeqsUpTo(Elements, MaxShortPage)
    \cup {[i \in 1..n |-> Result(cls, PatternTitle(pat, i), "")] :
             n \in 9..MaxPage, cls \in {"result", "news"}, pat \in TitlePatterns}

\* What session.get can give: a network error, a timeout, or a response
\* with a status and a page.
Responses ==
    {[exc |-> e, status |-> 0, soup |-> <<>>] : e \in {"ConnectionError", "Timeout"}}
    \cup {[exc |-> "none", status |-> st, soup |-> <<>>] : st \in {204, 304, 404, 500}}
    \cup {[exc |-> "none", status |-> 200, soup |-> page] : page \in Pages}

\* ------------------------------------------------------------------ state

chartVars == <<clock, savefig, data_summary, financial_data, parse_outcome,
               type_arg, chart, metrics_arg, render>>

searchVars == <<query, session_gets, response, parser_calls, parsed_results, parse_trace,
                search_results, search_text>>

NoTrace == [tried |-> <<>>, containers |-> <<>>, primary |-> <<>>, backup |-> FALSE,
            results |-> <<>>]

processVars == <<rcParams, files, log>>

vars == <<pc, chartVars, searchVars, processVars>>

\* The process has just imported the module: matplotlib has its default
\* parameters, and no call was made.
ProcessFresh ==
    /\ rcParams = [sheet_keys |-> "default", other_keys |-> "default"]
    /\ files = {}
    /\ log = <<>>

NoResponse == [exc |-> "none", status |-> 0, soup |-> <<>>]

NoText == [kind |-> "none", query |-> <<>>, items |-> <<>>, tip |-> ""]

\* No search is made.
SearchIdle ==
    /\ query = <<>>
    /\ session_gets = 0
    /\ response = NoResponse
    /\ parser_calls = 0
    /\ parsed_results = <<>>
    /\ parse_trace = NoTrace
    /\ search_results = <<>>
    /\ search_text = NoText

NoSummary == [type |-> "str", chars |-> <<>>]

NoChart == [response |-> <<>>]

NoRender == [ret |-> [status |-> "none"], drawn |-> <<>>, file |-> <<>>]

\* --------------------------------------------------- the extractor's calls

InitExtract ==
    /\ pc = "call"
    /\ clock = 0
    /\ savefig = "ok"
    /\ data_summary \in Summaries(MaxLen)
    /\ financial_data = <<>>
    /\ parse_outcome = "none"
    /\ type_arg = <<>>
    /\ chart = NoChart
    /\ metrics_arg = <<>>
    /\ render = NoRender
    /\ SearchIdle
    /\ ProcessFresh

\* await _parse_financial_data(data_summary)
CallParseFinancialData ==
    /\ pc = "call"
    /\ LET r == ParseFinancialData(data_summary)
       IN  /\ financial_data' = r.data
           /\ parse_outcome' = r.outcome
    /\ pc' = "returned"
    /\ UNCHANGED <<clock, savefig, data_summary, type_arg, chart, metrics_arg, render>>
    /\ UNCHANGED <<searchVars, processVars>>

NextExtract == CallParseFinancialData

SpecExtract == InitExtract /\ [][NextExtract]_vars

\* ------------------------------------------------- the chart entry point

InitChart ==
    /\ pc = "call"
    /\ clock = 0
    /\ savefig = "ok"
    /\ data_summary \in Summaries(MaxSummaryLen)
    /\ financial_data = <<>>
    /\ parse_outcome = "none"
    /\ type_arg = <<>>
    /\ chart = NoChart
    /\ metrics_arg = <<>>
    /\ render = NoRender
    /\ SearchIdle
    /\ ProcessFresh

\* await generate_chart(data_summary, type_arg)
CallGenerateChart ==
    /\ pc = "call"
    /\ \E ct \in ChartTypes, o \in IoOutcomes :
          /\ type_arg' = ct
          /\ savefig' = o
          /\ chart' = GenerateChart(data_summary, ct, clock, o)
    /\ pc' = "returned"
    /\ UNCHANGED <<clock, data_summary, financial_data, parse_outcome, metrics_arg, render>>
    /\ UNCHANGED <<searchVars, processVars>>

NextChart == CallGenerateChart

SpecChart == InitChart /\ [][NextChart]_vars

\* ------------------------------------------ the chart methods, called directly

InitRender ==
    /\ pc = "call"
    /\ clock = 0
    /\ savefig = "ok"
    /\ data_summary = NoSummary
    /\ financial_data = <<>>
    /\ parse_outcome = "none"
    /\ type_arg = <<>>
    /\ chart = NoChart
    /\ metrics_arg \in MetricMappings(MaxMetrics)
    /\ render = NoRender
    /\ SearchIdle
    /\ ProcessFresh

Rendered(method, r, o) ==
    /\ render' = r
    /\ savefig' = o
    /\ pc' = method
    /\ UNCHANGED <<clock, data_summary, financial_data, parse_outcome, type_arg,
                   chart, metrics_arg>>
    /\ UNCHANGED <<searchVars, processVars>>

\* chart_generator.generate_bar_chart(metrics_arg, title, 'corporate')
CallGenerateBarChart ==
    /\ pc = "call"
    /\ \E o \in IoOutcomes :
          Rendered("generate_bar_chart",
                   GenerateBarChart(metrics_arg, <<"title">>, "corporate", clock, o), o)

\* chart_generator.generate_line_chart(metrics_arg, title, 'Quarter', 'modern')
CallGenerateLineChart ==
    /\ pc = "call"
    /\ \E o \in IoOutcomes :
          Rendered("generate_line_chart",
                   GenerateLineChart(metrics_arg, <<"title">>, "Quarter", "modern", clock, o), o)

\* chart_generator.generate_pie_chart(metrics_arg, title, 'classic')
CallGeneratePieChart ==
    /\ pc = "call"
    /\ \E o \in IoOutcomes :
          Rendered("generate_pie_chart",
                   GeneratePieChart(metrics_arg, <<"title">>, "classic", clock, o), o)

\* chart_generator.generate_metrics_dashboard(metrics_arg, company, year)
CallGenerateMetricsDashboard ==
    /\ pc = "call"
    /\ \E o \in IoOutcomes :
          Rendered("generate_metrics_dashboard",
                   GenerateMetricsDashboard(metrics_arg, <<"Test Company">>,
                                            <<"2", "0", "2", "3">>, clock, o), o)

NextRender ==
    \/ CallGenerateBarChart
    \/ CallGenerateLineChart
    \/ CallGeneratePieChart
    \/ CallGenerateMetricsDashboard

SpecRender == InitRender /\ [][NextRender]_vars

\* ------------------------------- a process that makes one call after another

\* The style names of chart_styles.
Styles == {"corporate", "modern", "classic"}

\* The mapping the calls of a process are given.
ProcessMetrics == <<[k |-> "Revenue", v |-> IntVal(3)], [k |-> "ROE", v |-> IntVal(1)]>>

Companies == {<<"Acme">>, <<"Test Company">>}

callVars == <<savefig, data_summary, financial_data, parse_outcome, type_arg, chart,
              metrics_arg, render>>

InitProcess ==
    /\ pc = "process"
    /\ clock = 0
    /\ savefig = "ok"
    /\ data_summary = NoSummary
    /\ financial_data = <<>>
    /\ parse_outcome = "none"
    /\ type_arg = <<>>
    /\ chart = NoChart
    /\ metrics_arg = ProcessMetrics
    /\ render = NoRender
    /\ SearchIdle
    /\ ProcessFresh

\* Time passes between two calls.
Tick ==
    /\ pc = "process"
    /\ clock < MaxClock
    /\ clock' = clock + 1
    /\ UNCHANGED <<pc, callVars, searchVars, processVars>>

\* One call of a render method on chart_generator: the style is applied to
\* the process-wide parameters, the figure is drawn, and fig.savefig writes
\* the file, replacing the one of the same path.
ProcessCall(method, style, company, year, r) ==
    /\ pc = "process"
    /\ Len(log) < MaxCalls
    /\ rcParams' = RcAfter(rcParams, method, style)
    /\ files' = IF r.file = <<>> THEN files
                ELSE {f \in files : f.path # r.file}
                         \cup {[path |-> r.file, writer |-> Len(log) + 1]}
    /\ log' = Append(log, [method |-> method, style |-> style, company |-> company,
                           year |-> year, now |-> clock, status |-> r.ret.status,
                           filepath |-> r.file, drawn |-> r.drawn,
                           figure_style |-> RcAfter(rcParams, method, style)])
    /\ UNCHANGED <<pc, clock, callVars, searchVars>>

ProcessBarChart ==
    \E style \in Styles, o \in IoOutcomes :
        ProcessCall("generate_bar_chart", style, <<>>, <<>>,
                    GenerateBarChart(metrics_arg, <<"title">>, style, clock, o))

ProcessLineChart ==
    \E style \in Styles, o \in IoOutcomes :
        ProcessCall("generate_line_chart", style, <<>>, <<>>,
                    GenerateLineChart(metrics_arg, <<"title">>, "Quarter", style, clock, o))

ProcessPieChart ==
    \E style \in Styles, o \in IoOutcomes :
        ProcessCall("generate_pie_chart", style, <<>>, <<>>,
                    GeneratePieChart(metrics_arg, <<"title">>, style, clock, o))

ProcessMetricsDashboard ==
    \E company \in Companies, o \in IoOutcomes :
        ProcessCall("generate_metrics_dashboard", "", company, <<"2", "0", "2", "3">>,
                    GenerateMetricsDashboard(metrics_arg, company, <<"2", "0", "2", "3">>,
                                             clock, o))

NextProcess ==
    \/ Tick
    \/ ProcessBarChart
    \/ ProcessLineChart
    \/ ProcessPieChart
    \/ ProcessMetricsDashboard

SpecProcess == InitProcess /\ [][NextProcess]_vars

\* ------------------------------------------------------ the search client

InitSearch ==
    /\ pc = "async_search"
    /\ clock = 0
    /\ savefig = "ok"
    /\ data_summary = NoSummary
    /\ financial_data = <<>>
    /\ parse_outcome = "none"
    /\ type_arg = <<>>
    /\ chart = NoChart
    /\ metrics_arg = <<>>
    /\ render = NoRender
    /\ query \in Queries
    /\ session_gets = 0
    /\ response = NoResponse
    /\ parser_calls = 0
    /\ parsed_results = <<>>
    /\ parse_trace = NoTrace
    /\ search_results = <<>>
    /\ search_text = NoText
    /\ ProcessFresh

\* response = self.session.get(self.base_url, params=params, timeout=15)
SessionGet ==
    /\ pc = "async_search"
    /\ session_gets' = session_gets + 1
    /\ \E r \in Responses :
          /\ response' = r
          /\ pc' = IF r.exc = "none" THEN "raise_for_status"
                   ELSE IF SearchBaiduCatches(r.exc) THEN "except" ELSE "raised"
    /\ UNCHANGED <<chartVars, processVars, query, parser_calls, parsed_results, parse_trace, search_results, search_text>>

\* response.raise_for_status()
RaiseForStatus ==
    /\ pc = "raise_for_status"
    /\ pc' = IF ~RaisesForStatus(response.status) THEN "parse"
             ELSE IF SearchBaiduCatches("HTTPError") THEN "except" ELSE "raised"
    /\ UNCHANGED <<chartVars, processVars, searchVars>>

\* results = self._parse_baidu_results_optimized(soup); return results
ParseBaiduResults ==
    /\ pc = "parse"
    /\ parser_calls' = parser_calls + 1
    /\ parsed_results' = ParsedResults(response.soup)
    /\ parse_trace' = ParseTrace(response.soup)
    /\ search_results' = ParseBaiduResultsOptimized(response.soup)
    /\ pc' = "format"
    /\ UNCHANGED <<chartVars, processVars, query, session_gets, response, search_text>>

\* except Exception: return self._get_fallback_results(query)
ReturnFallback ==
    /\ pc = "except"
    /\ search_results' = GetFallbackResults(query)
    /\ pc' = "format"
    /\ UNCHANGED <<chartVars, processVars, query, session_gets, response, parser_calls, parsed_results, parse_trace, search_text>>

\* return self.format_search_results(results, query)
ReturnFormatted ==
    /\ pc = "format"
    /\ search_text' = FormatSearchResults(search_results, query)
    /\ pc' = "returned"
    /\ UNCHANGED <<chartVars, processVars, query, session_gets, response, parser_calls, parsed_results, parse_trace, search_results>>

NextSearch ==
    \/ SessionGet
    \/ RaiseForStatus
    \/ ParseBaiduResults
    \/ ReturnFallback
    \/ ReturnFormatted

SpecSearch == InitSearch /\ [][NextSearch]_vars

\* A call that has started goes on: the executor runs search_baidu, and
\* session.get returns or raises within its timeout of 15 seconds.
FairSpecSearch == SpecSearch /\ WF_vars(NextSearch)

\* ================================================================== claims

\* ---- the extractor (SpecExtract)

\* The end of the decimal number that starts at position n: digits, then
\* optionally a dot and more digits.
DecimalEnd(text, n) ==
    LET a == RunEnd(text, n, Digits)
    IN  IF a + 2 <= Len(text) /\ text[a + 1] = "." /\ text[a + 2] \in Digits
        THEN RunEnd(text, a + 2, Digits)
        ELSE a

\* Whether position i holds one of the labels, followed (after colons and
\* white space) by a number.
LabelledNumberAt(alts, text, i) ==
    /\ MatchesAny(alts, text[i])
    /\ LET n == RunEnd(text, i + 1, LabelSeps) + 1
       IN  n <= Len(text) /\ text[n] \in Digits

\* The number that follows the label at position i.
LabelledNumber(text, i) ==
    LET n == RunEnd(text, i + 1, LabelSeps) + 1
    IN  SubSeq(text, n, DecimalEnd(text, n))

\* C1: when the first occurrence of a recognized label in the text is
\* followed by a number, the mapping returned by _parse_financial_data has
\* the label's canonical key, and its value is that number as a float.
C1_LabelledNumberExtracted ==
    (pc = "returned" /\ data_summary.type = "str") =>
        \A p \in 1..Len(patterns) :
            LET text == data_summary.chars
                occ == {i \in 1..Len(text) : MatchesAny(patterns[p].alts, text[i])}
            IN  occ # {} =>
                    LET first == CHOOSE i \in occ : \A j \in occ : i <= j
                    IN  LabelledNumberAt(patterns[p].alts, text, first) =>
                            /\ patterns[p].key \in Keys(financial_data)
                            /\ DictGet(financial_data, patterns[p].key)
                                   = Float(LabelledNumber(text, first))

\* No token of the text is a label of any pattern.
NoLabel(text) ==
    \A i \in 1..Len(text) : \A p \in 1..Len(patterns) : ~MatchesAny(patterns[p].alts, text[i])

\* No number of the text (a run of digits and dots that starts with a
\* digit) is followed, after white space, by a unit.
NoUnitSuffixedNumber(text) ==
    \A i \in 1..Len(text) :
        text[i] \in Digits =>
            LET u == RunEnd(text, RunEnd(text, i, NumChars) + 1, WhiteSpace) + 1
            IN  ~(u <= Len(text) /\ MatchesAny(UnitTokens, text[u]))

\* C2: for a text with no recognizable label and no unit-suffixed number,
\* _parse_financial_data returns exactly the six-entry placeholder mapping.
C2_NothingRecognizedGivesPlaceholder ==
    (/\ pc = "returned"
     /\ data_summary.type = "str"
     /\ NoLabel(data_summary.chars)
     /\ NoUnitSuffixedNumber(data_summary.chars)) =>
        /\ financial_data = MockData
        /\ Len(financial_data) = 6

\* A text with a number and a unit that are not adjacent, and no label: the
\* placeholder was returned.
C2_Witness ==
    /\ pc = "returned"
    /\ data_summary.type = "str"
    /\ NoLabel(data_summary.chars)
    /\ NoUnitSuffixedNumber(data_summary.chars)
    /\ \E i, j \in 1..Len(data_summary.chars) :
          data_summary.chars[i] \in Digits /\ data_summary.chars[j] = "%"
    /\ financial_data = MockData

\* C3: _parse_financial_data never raises and returns a non-empty mapping;
\* when its except branch ran, the mapping is the placeholder mapping.
C3_ExtractorNeverFails ==
    pc = "returned" =>
        /\ parse_outcome \in {"return", "caught"}
        /\ financial_data # <<>>
        /\ parse_outcome = "caught" => financial_data = MockData

\* The extraction raised (the argument is no str) and the placeholder came back.
C3_Witness ==
    /\ pc = "returned"
    /\ data_summary.type # "str"
    /\ parse_outcome = "caught"
    /\ financial_data = MockData

\* ---- the chart entry point (SpecChart)

\* C4, as claimed: whatever the extraction yields, generate_chart calls the
\* renderer with the extracted or placeholder mapping and returns no
\* failure message on account of the extraction.
C4_RendererAlwaysCalled ==
    pc = "returned" =>
        /\ chart.specific_calls
               = <<[parsed_data |-> chart.parsed_data, chart_type |-> type_arg]>>
        /\ chart.response # InsufficientMessage

\* C4, amended: generate_chart calls the renderer with the extracted or
\* placeholder mapping when that mapping has at least two entries, which
\* includes every text in which nothing is recognized (the placeholder has
\* six); a mapping of one entry makes it return the "Cannot extract
\* sufficient financial information" failure without calling the renderer.
C4_RendererCalledFromTwoMetrics ==
    pc = "returned" =>
        /\ chart.parsed_data = ParseText(data_summary.chars)
              \/ (data_summary.type # "str" /\ chart.parsed_data = MockData)
        /\ (data_summary.type = "str" /\ NoLabel(data_summary.chars)
               /\ NoUnitSuffixedNumber(data_summary.chars))
              => chart.parsed_data = MockData
        /\ IF Len(chart.parsed_data) >= 2
           THEN /\ chart.specific_calls
                       = <<[parsed_data |-> chart.parsed_data, chart_type |-> type_arg]>>
                /\ Len(chart.render_calls) = IF data_summary.type = "str" THEN 1 ELSE 0
                /\ chart.response # InsufficientMessage
           ELSE /\ Len(chart.parsed_data) = 1
                /\ chart.specific_calls = <<>>
                /\ chart.render_calls = <<>>
                /\ chart.response = InsufficientMessage

\* Nothing was recognized in a non-empty text, and the renderer was called
\* with the placeholder mapping.
C4_Witness ==
    /\ pc = "returned"
    /\ data_summary.type = "str"
    /\ data_summary.chars # <<>>
    /\ NoLabel(data_summary.chars)
    /\ NoUnitSuffixedNumber(data_summary.chars)
    /\ chart.parsed_data = MockData
    /\ Len(chart.specific_calls) = 1
    /\ Len(chart.render_calls) = 1
    /\ chart.response.mark = "OK"

\* C5, as claimed: generate_chart returns the success message exactly when
\* the render path returned a success record, and otherwise a failure
\* string that carries the caught exception's message; one render path at
\* most is called.
C5_FailureCarriesException ==
    pc = "returned" =>
        /\ chart.response.mark = "OK" <=> chart.chart_result.status = "success"
        /\ chart.response.mark # "OK" =>
              /\ chart.response.mark = "X"
              /\ chart.chart_result.status = "error"
              /\ chart.response.detail = chart.chart_result.message
        /\ Len(chart.render_calls) <= 1

\* C5, amended: generate_chart always returns a string.  It is the success
\* message, with the record's chart type and file path, exactly when the
\* selected render path returned a record with status "success".  When the
\* renderer returned an error record it is "Chart generation failed: " with
\* the caught exception's message, and no other chart kind is tried.  When
\* fewer than two metrics were extracted no render path is selected and it
\* is the fixed "Cannot extract sufficient financial information" failure,
\* which carries no exception message.
C5_SuccessIffRenderSucceeded ==
    pc = "returned" =>
        /\ chart.response.mark \in {"OK", "X"}
        /\ chart.response.mark = "OK" <=> chart.chart_result.status = "success"
        /\ chart.chart_result.status = "success" =>
              /\ chart.response.chart_type = chart.chart_result.chart_type
              /\ chart.response.filepath = chart.chart_result.filepath
              /\ chart.response.filepath = chart.file
              /\ savefig = "ok"
        /\ chart.chart_result.status = "error" =>
              /\ chart.response.head = "Chart generation failed: "
              /\ chart.response.detail = chart.chart_result.message
              /\ chart.response.detail \in {savefig, "ZeroDivisionError", "TypeError"}
              /\ chart.file = <<>>
        /\ chart.chart_result.status \notin {"success", "error"} =>
              /\ Len(chart.parsed_data) < 2
              /\ chart.response = InsufficientMessage
              /\ chart.render_calls = <<>>
        /\ Len(chart.render_calls) <= 1

\* A render path failed: the failure string carries its message and
\* nothing else was tried.
C5_Witness ==
    /\ pc = "returned"
    /\ chart.chart_result.status = "error"
    /\ chart.render_calls = <<"generate_pie_chart">>
    /\ chart.response.mark = "X"
    /\ chart.response.detail = "OSError"

\* Whether the chart-type string, in lower case, holds one of the words.
TypeHolds(words) ==
    \E i \in 1..Len(type_arg) :
        \E w \in words : type_arg[i] \in {w.lower, w.capital, w.upper}

Spelled(lower, capital, upper) == [lower |-> lower, capital |-> capital, upper |-> upper]

\* The kind the chart-type string asks for: the first family, in the order
\* bar, line, pie, dashboard, one of whose keywords the string holds; bar
\* when it holds none.
AskedKind ==
    IF TypeHolds({Spelled("bar", "Bar", "BAR"), Spelled("Zhu", "Zhu", "Zhu")})
    THEN "bar"
    ELSE IF TypeHolds({Spelled("line", "Line", "LINE"), Spelled("ZheXian", "ZheXian", "ZheXian")})
    THEN "line"
    ELSE IF TypeHolds({Spelled("pie", "Pie", "PIE"), Spelled("Bing", "Bing", "Bing")})
    THEN "pie"
    ELSE IF TypeHolds({Spelled("dashboard", "Dashboard", "DASHBOARD"),
                       Spelled("YiBiao", "YiBiao", "YiBiao")})
    THEN "dashboard"
    ELSE "bar"

\* The render routine of a kind.
RoutineOf(kind) ==
    CASE kind = "bar" -> "generate_bar_chart"
      [] kind = "line" -> "generate_line_chart"
      [] kind = "pie" -> "generate_pie_chart"
      [] kind = "dashboard" -> "generate_metrics_dashboard"

\* C12: when generate_chart renders, the routine it calls is the one of the
\* first keyword family, in the order bar, line, pie, dashboard, found in
\* the lower-cased chart-type string, and the bar routine when none is
\* found; and the type its success message reports is that kind.
C12_KindByFirstKeywordFamily ==
    (pc = "returned" /\ chart.render_calls # <<>>) =>
        /\ chart.render_calls = <<RoutineOf(AskedKind)>>
        /\ chart.response.mark = "OK" => chart.response.chart_type = AskedKind

\* The string names dashboard and pie, in this order: the pie chart was
\* made, and the message says so.
C12_Witness ==
    /\ pc = "returned"
    /\ type_arg = <<"DASHBOARD", "Bing">>
    /\ chart.render_calls = <<"generate_pie_chart">>
    /\ chart.response.mark = "OK"
    /\ chart.response.chart_type = "pie"

\* The decimal numerals of the counts a bounded mapping can have.
Numerals == {ToString(n) : n \in 0..(2 * MaxMetrics + MaxLen)}

\* C15: when generate_chart returns the success message, the record of the
\* render path carries chart type, title, file path, base64 image,
\* data-point count and status "success", and the message reports a
\* numeric data-point count, whatever the chart kind.
C15_SuccessReportsDataPointCount ==
    (pc = "returned" /\ chart.response.mark = "OK") =>
        /\ {"chart_type", "title", "filepath", "image_base64", "data_points", "status"}
              \subseteq DOMAIN chart.chart_result
        /\ chart.chart_result.status = "success"
        /\ chart.response.data_points \in Numerals

\* ---- the chart methods (SpecRender)

\* sum of the numerators of the slices
RECURSIVE SumNum(_)
SumNum(slices) == IF slices = <<>> THEN 0 ELSE Head(slices).num + SumNum(Tail(slices))

HasRatioKey(m) == \E i \in 1..Len(m) : AnyWordInKey(ratio_keywords, m[i].k)

\* The entries of m whose key holds one of the words.
EntriesWith(m, words) == SelectSeq(m, LAMBDA e : AnyWordInKey(words, e.k))

\* C9: for a mapping with no ratio keyword generate_pie_chart draws one
\* slice per entry, of value v / total * 100, and the slices sum to 100; with
\* a ratio keyword the slices are those entries with their original values.
C9_PieSlicesSumTo100 ==
    (pc = "generate_pie_chart" /\ metrics_arg # <<>>) =>
        LET m == metrics_arg
            drawn == render.drawn
        IN  IF HasRatioKey(m)
            THEN LET kept == EntriesWith(m, ratio_keywords)
                 IN  /\ Len(drawn) = Len(kept)
                     /\ \A i \in 1..Len(kept) :
                           /\ drawn[i].k = kept[i].k
                           /\ drawn[i].num * Pow10(kept[i].v.e)
                                  = kept[i].v.m * drawn[i].den
            ELSE /\ Len(drawn) = Len(m)
                 /\ \A i \in 1..Len(m) :
                       /\ drawn[i].k = m[i].k
                       /\ drawn[i].den # 0
                       /\ drawn[i].den = drawn[1].den
                       \* v / total * 100, total the sum over the mapping
                       /\ drawn[i].num * SumScaled(m, MaxExp(m))
                              = 100 * Scaled(m[i].v, MaxExp(m)) * drawn[i].den
                 /\ SumNum(drawn) = 100 * drawn[1].den

\* C10: each quadrant of the dashboard draws bars if and only if its subset
\* after fallback selection is non-empty (profitability: no fallback;
\* growth: else all; structure: else the first min(4, n); efficiency: else
\* the last min(4, n)), and the selections raise for no size of mapping.
C10_DashboardQuadrants ==
    pc = "generate_metrics_dashboard" =>
        LET m == metrics_arg
            n == Len(m)
            d == render.drawn
            profit == EntriesWith(m, {"revenue", "profit", "margin"})
            growth == EntriesWith(m, {"growth", "increase"})
            structure == EntriesWith(m, {"debt", "asset", "equity"})
            efficiency == EntriesWith(m, {"roe", "roa", "efficiency"})
        IN  /\ d.profit.data = profit
            /\ d.growth.data = IF growth # <<>> THEN growth ELSE m
            /\ d.structure.data
                  = IF structure # <<>> THEN structure ELSE SubSeq(m, 1, Min(4, n))
            /\ d.efficiency.data
                  = IF efficiency # <<>> THEN efficiency
                    ELSE SubSeq(m, n - Min(4, n) + 1, n)
            /\ d.profit.bars <=> d.profit.data # <<>>
            /\ d.growth.bars <=> d.growth.data # <<>>
            /\ d.structure.bars <=> d.structure.data # <<>>
            /\ d.efficiency.bars <=> d.efficiency.data # <<>>
            /\ savefig = "ok" => render.ret.status = "success"
            /\ render.ret.status = "error" => render.ret.message = savefig

\* A mapping of one to three entries, none a structure or efficiency
\* metric: both fallback slices were taken and drawn, nothing raised.
C10_Witness ==
    /\ pc = "generate_metrics_dashboard"
    /\ Len(metrics_arg) \in 1..3
    /\ EntriesWith(metrics_arg, {"debt", "asset", "equity", "roe", "roa", "efficiency"}) = <<>>
    /\ EntriesWith(metrics_arg, {"revenue", "profit", "margin"}) = <<>>
    /\ render.drawn.structure.bars
    /\ render.drawn.efficiency.bars
    /\ ~render.drawn.profit.bars
    /\ render.drawn.efficiency.data = metrics_arg
    /\ render.ret.status = "success"

\* ---- the search client (SpecSearch)

\* search_baidu has returned.
SearchReturned == pc \in {"format", "returned"}

\* One request was made, nothing was parsed, and the list is the one
\* fallback item.
ShortCircuited ==
    /\ session_gets = 1
    /\ parser_calls = 0
    /\ parsed_results = <<>>
    /\ Len(search_results) = 1
    /\ search_results[1].source = "XiTongTiShi"

\* C6 as stated: whenever the endpoint answers with a status other than 200,
\* or the GET fails with a network error or a timeout, search_baidu makes no
\* second request, parses nothing and returns exactly the one fallback item
\* of source XiTongTiShi.
C6_NonOkStatusShortCircuits ==
    (SearchReturned /\ (response.exc # "none" \/ response.status # 200))
        => ShortCircuited

\* C6 amended: whenever the endpoint answers with a 4xx or 5xx status, or the
\* GET fails with a network error or a timeout, search_baidu makes no second
\* request, parses nothing and returns exactly the one fallback item of
\* source XiTongTiShi; and a response of any other status is parsed.
C6_ErrorStatusShortCircuits ==
    SearchReturned =>
        IF response.exc # "none" \/ response.status \in 400..599
        THEN ShortCircuited
        ELSE parser_calls = 1 /\ session_gets = 1

C6_Witness ==
    /\ pc = "returned"
    /\ response.exc = "none"
    /\ response.status = 404
    /\ ShortCircuited

\* The three texts: the result block (one to five items and a tip), the
\* no-results line, the notice that carries the fallback abstract.
ReadableText ==
    \/ /\ search_text.kind = "block"
       /\ Len(search_text.items) \in 1..5
       /\ search_text.tip \in {"financial", "generic"}
    \/ /\ search_text.kind = "no results"
       /\ search_text.items = <<>>
    \/ /\ search_text.kind = "notice"
       /\ search_text.items = <<"WuFaHuoQu query">>

\* C7: the search client never raises to its caller: whatever the query, the
\* network outcome and the page, no exception leaves search_baidu, the call
\* of async_search returns in the end, and what it returns is the result
\* block, the no-results line or the fallback notice.
C7_SearchNeverRaises ==
    /\ [](pc # "raised")
    /\ [](pc = "returned" => ReadableText)
    /\ <>(pc = "returned")

\* A page with a container whose parsing raises, in which both passes find
\* nothing.
C7_Witness ==
    /\ pc = "returned"
    /\ \E i \in 1..Len(response.soup) : response.soup[i].malformed
    /\ parser_calls = 1
    /\ parsed_results = <<>>
    /\ search_text.kind = "no results"

\* The positions of the items that are the first of their title.
FirstSeen(items) ==
    {i \in 1..Len(items) : \A j \in 1..(i - 1) : items[j].title # items[i].title}

\* The k-th smallest member of a set of positions.
KthOf(positions, k) ==
    CHOOSE i \in positions : Cardinality({j \in positions : j <= i}) = k

\* C8: the list _parse_baidu_results_optimized returns has no title twice;
\* it is made of the parsed items that are the first of their title, in the
\* order they were parsed, cut after the eighth.
C8_UniqueTitlesFirstSeenAtMost8 ==
    (SearchReturned /\ parser_calls = 1) =>
        /\ \A i, j \in 1..Len(search_results) :
              search_results[i].title = search_results[j].title => i = j
        /\ Len(search_results) <= 8
        /\ Len(search_results) = Min(8, Cardinality(FirstSeen(parsed_results)))
        /\ \A k \in 1..Len(search_results) :
              search_results[k] = parsed_results[KthOf(FirstSeen(parsed_results), k)]

\* More than eight titles were parsed, one of them twice.
C8_Witness ==
    /\ SearchReturned
    /\ parser_calls = 1
    /\ Cardinality(FirstSeen(parsed_results)) > 8
    /\ Len(parsed_results) > Cardinality(FirstSeen(parsed_results))
    /\ Len(search_results) = 8

\* The selectors in the priority order the parser is said to follow.
PriorityOrder ==
    <<"div.result", "div.c-container", "div[class*=result]",
      "div[class*=c-container]", "div.content-left", "div[srcid]">>

\* The elements of the page received that the k-th selector matches.
Matching(k) == Select(response.soup, PriorityOrder[k])

\* The first selector of the order that matches some element of the page.
FirstMatching ==
    {k \in 1..Len(PriorityOrder) :
        Matching(k) # <<>> /\ \A j \in 1..(k - 1) : Matching(j) = <<>>}

\* The items of the containers that give one, in the containers' order.
RECURSIVE ItemsOf(_)
ItemsOf(containers) ==
    IF containers = <<>> THEN <<>>
    ELSE LET r == ParseSingleResult(Head(containers))
         IN  (IF r.exc = "none" /\ r.result # <<>> /\ r.result[1].title # ""
              THEN r.result ELSE <<>>) \o ItemsOf(Tail(containers))

\* C13: once the parser has run on a page, the selectors it tried are the
\* priority order up to and including the first selector that matches an
\* element (all six when none matches); the containers it parsed are the
\* first 10 elements of that selector and of no other, also when every one
\* of them is rejected; the backup pass ran exactly when the primary pass
\* produced no result, and the list is then the backup pass's, else the
\* primary pass's.
C13_FirstMatchingSelectorThenBackup ==
    parser_calls > 0 =>
        /\ \/ \E k \in FirstMatching :
                 /\ parse_trace.tried = SubSeq(PriorityOrder, 1, k)
                 /\ parse_trace.containers
                        = SubSeq(Matching(k), 1, Min(10, Len(Matching(k))))
           \/ /\ FirstMatching = {}
              /\ parse_trace.tried = PriorityOrder
              /\ parse_trace.containers = <<>>
        /\ parse_trace.primary = ItemsOf(parse_trace.containers)
        /\ parse_trace.backup <=> (parse_trace.primary = <<>>)
        /\ parsed_results = IF parse_trace.backup
                            THEN ParseBackupResults(response.soup)
                            ELSE parse_trace.primary

\* The parser ran on a page whose first matching selector is "div.result",
\* every container of which was rejected, while a later selector matches
\* an element that "div.result" does not: the later selector was not tried,
\* the backup pass ran and found a result.
C13_Witness ==
    /\ parser_calls > 0
    /\ parse_trace.tried = <<"div.result">>
    /\ parse_trace.containers # <<>>
    /\ parse_trace.primary = <<>>
    /\ \E i \in 1..Len(response.soup) :
          /\ Selects("div.c-container", response.soup[i])
          /\ ParseSingleResult(response.soup[i]).result # <<>>
    /\ parse_trace.backup
    /\ parsed_results # <<>>

\* ---- a process that makes one call after another (SpecProcess)

\* Calls i and j of the log both reported success.
BothSucceeded(i, j) == log[i].status = "success" /\ log[j].status = "success"

\* Calls i and j were made within the same second.
SameSecond(i, j) == log[i].now \div TicksPerSecond = log[j].now \div TicksPerSecond

\* Calls i and j are of the same kind and, being dashboards, of the same
\* company and year.
SameKind(i, j) ==
    /\ log[i].method = log[j].method
    /\ log[i].company = log[j].company
    /\ log[i].year = log[j].year

\* C11: of two render calls that succeeded, when they are of the same kind
\* (for a dashboard also of the same company and year) and their timestamps
\* fall in the same second, both report the same path and the file of that
\* path is the later call's, the earlier one's being replaced; when they are
\* of different kinds or of different seconds their paths differ.
C11_SameKindSameSecondSamePath ==
    \A i, j \in 1..Len(log) :
        (i < j /\ BothSucceeded(i, j)) =>
            /\ (SameKind(i, j) /\ SameSecond(i, j)) =>
                  /\ log[i].filepath = log[j].filepath
                  /\ \E f \in files : f.path = log[j].filepath /\ f.writer >= j
                  /\ \A f \in files : f.writer # i
            /\ (log[i].method # log[j].method \/ ~SameSecond(i, j)) =>
                  log[i].filepath # log[j].filepath

\* Two bar charts made at different ticks of one second: one file is left.
C11_Witness ==
    /\ Len(log) = 2
    /\ BothSucceeded(1, 2)
    /\ log[1].method = "generate_bar_chart"
    /\ log[2].method = "generate_bar_chart"
    /\ log[1].now # log[2].now
    /\ SameSecond(1, 2)
    /\ log[1].filepath = log[2].filepath
    /\ Cardinality(files) = 1

\* The plotting parameters the figure of a logged call is drawn with when
\* the same call is the first one of a process.
StyleInFreshProcess(e) ==
    RcAfter([sheet_keys |-> "default", other_keys |-> "default"], e.method, e.style)

\* C14: the outcome of a render call on chart_generator does not depend on
\* the calls made before it: the plotting parameters its figure is drawn
\* with are the ones the same call gets as the first call of a process.
C14_OutcomeIndependentOfEarlierCalls ==
    \A i \in 1..Len(log) : log[i].figure_style = StyleInFreshProcess(log[i])

====
